---- MODULE Spec2Model ----
(***************************************************************************)
(* A model of evalml's PipelineBase (src/evalml/pipelines/pipeline_base.py) *)
(* together with the component wrapper and the objectives it drives.        *)
(*                                                                          *)
(* The wrapped library does the numerical work, so data and predictions are *)
(* symbolic terms: a data set is a record of its origin and of the chain of *)
(* component transforms applied to it, a prediction names the estimator     *)
(* state and the data it was computed from, a score names the objective and *)
(* the prediction it was computed on.  Every call the pipeline makes on a   *)
(* component or on the objective during one operation is logged in `calls`. *)
(* Python strings built by concatenation are sequences of their pieces.     *)
(* Python dicts are functions on a finite set of keys; an OrderedDict is a  *)
(* sequence of <<key, value>> pairs with distinct keys.                     *)
(***************************************************************************)
EXTENDS Integers, Sequences, FiniteSets, TLC

VARIABLES
    pc,                   \* "new" | "ready" (constructed) | "failed" (__init__ raised)
    raised,               \* exception raised by the last operation, "" if none
    objective,            \* self.objective
    component_list,       \* self.component_list
    component_names,      \* self.component_names
    name,                 \* self.name
    parameters,           \* self.parameters
    n_jobs,               \* self.n_jobs
    random_state,         \* self.random_state
    kwargs,               \* the **kwargs dict of __init__ as _instantiate_components leaves it
    instantiated,         \* the objects component.__class__(**relevant_args) built, in order
    input_feature_names,  \* self.input_feature_names
    fitted,               \* fit state of each component's wrapped object
    objective_fitted,     \* fit state of the objective
    calls,                \* calls made on components and objective by the last operation
    ret,                  \* what the last operation returned
    metric_call           \* the last score of a standard objective and the library call it made

vars == <<pc, raised, objective, component_list, component_names, name, parameters,
          n_jobs, random_state, kwargs, instantiated, input_feature_names, fitted,
          objective_fitted, calls, ret, metric_call>>

-----------------------------------------------------------------------------
(* Bounds *)

MaxComponents == 3

MaxOther == 2

-----------------------------------------------------------------------------
(* Dicts *)

EmptyDict == <<>>

\* dict.update(other)
Update(d, other) ==
    [k \in (DOMAIN d) \cup (DOMAIN other) |->
        IF k \in DOMAIN other THEN other[k] ELSE d[k]]

-----------------------------------------------------------------------------
(* Components *)

\* class LDA(Transformer): its constructor's signature is
\* (n_components=None, random_state=0, **kwargs) and its parameters start as
\* {"n_components": n_components}.
LDA ==
    [name |-> "Linear Discriminant Analysis Transformer",
     estimator |-> FALSE,
     needs_fitting |-> TRUE,
     args |-> {"n_components", "random_state", "kwargs"},
     parameters |-> [k \in {"n_components"} |-> "None"]]

\* A component built with ComponentBase's defaults: needs_fitting=False and
\* parameters={}.
Transformer ==
    [name |-> "Transformer",
     estimator |-> FALSE,
     needs_fitting |-> FALSE,
     args |-> {"random_state"},
     parameters |-> EmptyDict]

\* An Estimator component, the kind RFClassificationPipeline wraps.
RandomForest ==
    [name |-> "Random Forest Classifier",
     estimator |-> TRUE,
     needs_fitting |-> TRUE,
     args |-> {"n_estimators", "max_depth", "n_jobs", "random_state"},
     parameters |-> [k \in {"n_estimators", "max_depth"} |->
                        IF k = "n_estimators" THEN "10" ELSE "None"]]

Components == {LDA, Transformer, RandomForest}

Transformers == {c \in Components : ~c.estimator}

NoComponent ==
    [name |-> "", estimator |-> FALSE, needs_fitting |-> FALSE, args |-> {},
     parameters |-> EmptyDict]

\* isinstance(component, Estimator)
IsEstimator(component) == component.estimator

\* component.__class__(**relevant_args): a fresh object of the same class whose
\* parameters are the class defaults overridden by the arguments that are
\* parameters proper (n_jobs and random_state are kept by the wrapped object).
Instantiate(component, relevant_args) ==
    [component EXCEPT !.parameters =
        [k \in DOMAIN component.parameters |->
            IF k \in DOMAIN relevant_args THEN relevant_args[k]
            ELSE component.parameters[k]]]

\* The component lists given to the constructor: transformers, then any
\* component.
ComponentLists ==
    UNION {
        {ts \o <<c>> : ts \in [1..k -> Transformers], c \in Components}
        : k \in 0..(MaxComponents - 1)}

\* The keyword arguments given to the constructor.
KwargsChoices ==
    {EmptyDict,
     [k \in {"n_components", "n_estimators", "C"} |->
        IF k = "n_components" THEN "2" ELSE IF k = "n_estimators" THEN "100" ELSE "1.0"]}

-----------------------------------------------------------------------------
(* Objectives *)

Obj(n, needs_fitting, fit_needs_proba, score_needs_proba, uses_extra_columns, greater) ==
    [name |-> n,
     needs_fitting |-> needs_fitting,
     fit_needs_proba |-> fit_needs_proba,
     score_needs_proba |-> score_needs_proba,
     uses_extra_columns |-> uses_extra_columns,
     greater_is_better |-> greater]

F1 == Obj("F1", FALSE, FALSE, FALSE, FALSE, TRUE)

AUC == Obj("AUC", FALSE, FALSE, TRUE, FALSE, TRUE)

\* Objectives with a fitting pass of their own, one for each way fit and
\* predict branch on the flags.
FraudCost == Obj("Fraud Cost", TRUE, TRUE, FALSE, TRUE, FALSE)

LeadScoring == Obj("Lead Scoring", TRUE, TRUE, FALSE, FALSE, TRUE)

TunedLabels == Obj("Tuned Labels", TRUE, FALSE, FALSE, FALSE, TRUE)

StandardObjectives == {F1, AUC}

Objectives == StandardObjectives \cup {FraudCost, LeadScoring, TunedLabels}

\* The other_objectives lists given to score.
OtherObjectiveLists ==
    UNION {[1..k -> StandardObjectives] : k \in 0..MaxOther}

NoObjective == Obj("", FALSE, FALSE, FALSE, FALSE, FALSE)

-----------------------------------------------------------------------------
(* Data, predictions and scores *)

\* The data sets given to fit, predict and score; they differ in the number
\* of classes of their labels, which predict_proba's result depends on.
Datasets == {"binary", "multiclass"}

\* The fit state of a wrapped object: the training data it was fitted on.
FitTag(ds, part) == [ds |-> ds, part |-> part]

Unfitted == FitTag("", "none")

\* A feature table: data set ds, the part of it train_test_split kept ("all"
\* when it was not split), and the transforms applied, each by the component
\* at an index of component_list in the fit state it then had.
Data(ds, part) == [ds |-> ds, part |-> part, chain |-> <<>>]

NoData == Data("", "none")

\* component.transform(X) / component.fit_transform(X, y), by component i in
\* fit state st.
Transformed(X, i, st) == [X EXCEPT !.chain = Append(@, [comp |-> i, state |-> st])]

NoPred ==
    [kind |-> "none", X |-> NoData, est |-> Unfitted,
     post |-> FALSE, postState |-> Unfitted, postExtra |-> FALSE]

\* estimator.predict(X_t) and estimator.predict_proba(X_t) of the wrapped
\* library, for an estimator in fit state st.
EstimatorPredict(X_t, st) == [NoPred EXCEPT !.kind = "labels", !.X = X_t, !.est = st]

EstimatorPredictProba(X_t, st) == [NoPred EXCEPT !.kind = "proba", !.X = X_t, !.est = st]

\* proba.shape[1]: one column per class the estimator was fitted on.
ProbaColumns(st) == IF st.ds = "binary" THEN 2 ELSE 3

\* proba[:, 1]
Column1(proba) == [proba EXCEPT !.kind = "proba[:, 1]"]

\* objective.predict(y_predicted) / objective.predict(y_predicted, X) of an
\* objective in fit state st.
ObjectivePredict(y_predicted, st, extra) ==
    [y_predicted EXCEPT !.post = TRUE, !.postState = st, !.postExtra = extra]

\* objective.score(y_predictions, y) / objective.score(y_predictions, y, X)
ObjectiveScore(obj, y_predictions, y, extra) ==
    [objective |-> obj.name, pred |-> y_predictions, y |-> y, extra |-> extra]

NoScore == [objective |-> "", pred |-> NoPred, y |-> Unfitted, extra |-> FALSE]

\* list(pd.DataFrame(X_t)): the column names of a feature table.  LDA renames
\* its output columns component_0 .. component_{k-1}, k at most the number of
\* classes less one; a component without columns of its own keeps them.
RawColumns(ds) ==
    IF ds = "binary" THEN <<"a", "b", "c">> ELSE <<"a", "b", "c", "d">>

LDAColumns(st) ==
    IF st.ds = "binary" THEN <<"component_0">> ELSE <<"component_0", "component_1">>

RECURSIVE ColumnsAfter(_, _, _)
ColumnsAfter(list, X, k) ==
    IF k = 0 THEN RawColumns(X.ds)
    ELSE IF list[X.chain[k].comp].name = LDA.name THEN LDAColumns(X.chain[k].state)
    ELSE ColumnsAfter(list, X, k - 1)

Columns(list, X) == ColumnsAfter(list, X, Len(X.chain))

\* One call the pipeline makes on a component (comp: its index in
\* component_list) or on the objective (comp = 0).
Call(op, comp, X, y, pred, extra) ==
    [op |-> op, comp |-> comp, X |-> X, y |-> y, pred |-> pred, extra |-> extra]

\* What an operation returns, by the kind of value: a prediction, the pair of
\* score, a component, a dict or a name; arg is the operation's argument where
\* a claim needs it.
NoRet ==
    [op |-> "", pred |-> NoPred, score |-> NoScore, other_scores |-> <<>>,
     item |-> NoComponent, dict |-> EmptyDict, name |-> <<>>, arg |-> <<>>]

-----------------------------------------------------------------------------
(* PipelineBase: naming and construction *)

\* PipelineBase._generate_name: the loop over enumerate(component_list[:-1]),
\* from index (0-based) on, appending to name.
RECURSIVE _generate_name_loop(_, _, _)
_generate_name_loop(list, index, acc) ==
    IF index >= Len(list) - 1 THEN acc
    ELSE _generate_name_loop(list, index + 1,
            IF index = 0 THEN acc \o <<" w/ ", list[index + 1].name>>
            ELSE acc \o <<" + ", list[index + 1].name>>)

\* A name that joins every non-final component with " + ".
_generate_name_plus(list) ==
    <<list[Len(list)].name>>
    \o [j \in 1..(2 * (Len(list) - 1)) |->
          IF j % 2 = 1 THEN " + " ELSE list[j \div 2].name]

_generate_name(list) == _generate_name_loop(list, 0, <<list[Len(list)].name>>)

\* PipelineBase.generate_name (classmethod): the same rule, written out a
\* second time in the source.
RECURSIVE generate_name_loop(_, _, _)
generate_name_loop(list, index, acc) ==
    IF index >= Len(list) - 1 THEN acc
    ELSE generate_name_loop(list, index + 1,
            IF index = 0 THEN acc \o <<" w/ ", list[index + 1].name>>
            ELSE acc \o <<" + ", list[index + 1].name>>)

generate_name(list) ==
    LET estimator == list[Len(list)]
    IN  generate_name_loop(list, 0, <<estimator.name>>)

\* A check of the first component in place of the last.
LastIsEstimator_first(list) == IsEstimator(list[1])

\* The check of __init__ on the last component.
LastIsEstimator(list) == IsEstimator(list[Len(list)])

\* kwargs after kwargs['n_jobs'] = self.n_jobs; kwargs['random_state'] = self.random_state
WithJobsAndState(kw, nj, rs) ==
    Update(kw, [k \in {"n_jobs", "random_state"} |-> IF k = "n_jobs" THEN nj ELSE rs])

\* relevant_args: the items of kwargs whose key is a parameter of the
\* component's constructor.
RelevantArgs(component, kw) ==
    [k \in {a \in DOMAIN kw : a \in component.args} |-> kw[k]]

\* PipelineBase._instantiate_components: each new object is bound to the loop
\* variable `component` only; self.component_list is not assigned.  The result
\* is the list as the method leaves it, the kwargs dict as it leaves it and
\* the objects it built.
_instantiate_components(list, kw, nj, rs) ==
    [component_list |-> list,
     kwargs |-> IF Len(list) = 0 THEN kw ELSE WithJobsAndState(kw, nj, rs),
     built |-> [i \in 1..Len(list) |->
                  Instantiate(list[i], RelevantArgs(list[i], WithJobsAndState(kw, nj, rs)))]]

\* for component in self.component_list: self.parameters.update(component.parameters)
RECURSIVE CollectParameters(_, _, _)
CollectParameters(list, i, acc) ==
    IF i > Len(list) THEN acc
    ELSE CollectParameters(list, i + 1, Update(acc, list[i].parameters))

-----------------------------------------------------------------------------
(* PipelineBase: transform, fit, predict, score *)

\* The fields of the pipeline object the methods below read and write.
Self ==
    [component_list |-> component_list,
     objective |-> objective,
     fitted |-> fitted,
     objective_fitted |-> objective_fitted,
     input_feature_names |-> input_feature_names]

\* What a method gives back: its value, the calls it made and the exception it
\* raised ("" if none).  The wrapped library raises NotFittedError when a
\* wrapped object that needs fitting is used before it was fitted.
Outcome(X, pred, log, exc) == [X |-> X, pred |-> pred, calls |-> log, raised |-> exc]

\* LET r == v IN F(r), with v evaluated once.
With(v, F(_)) == CHOOSE x \in {F(r) : r \in {v}} : TRUE

\* PipelineBase._transform: the loop over component_list[:-1], from the
\* component at position i on.
RECURSIVE _transform_loop(_, _, _, _)
_transform_loop(self, X_t, i, log) ==
    IF i > Len(self.component_list) - 1 THEN Outcome(X_t, NoPred, log, "")
    ELSE LET component == self.component_list[i]
             call == Call("transform", i, X_t, Unfitted, NoPred, FALSE)
         IN  IF component.needs_fitting /\ self.fitted[i] = Unfitted
             THEN Outcome(NoData, NoPred, Append(log, call), "NotFittedError")
             ELSE With(Transformed(X_t, i, self.fitted[i]), LAMBDA X_next :
                  With(Append(log, call), LAMBDA log_next :
                    _transform_loop(self, X_next, i + 1, log_next)))

\* A _transform that gives X back as it came.
_transform_none(self, X) == Outcome(X, NoPred, <<>>, "")

_transform(self, X) == _transform_loop(self, X, 1, <<>>)

\* The fit state a wrapped object gets from fit(X, y) or fit_transform(X, y).
FittedOn(X) == FitTag(X.ds, X.part)

\* self.input_feature_names.update({component.name: list(pd.DataFrame(X_t))})
RecordFeatureNames(self, component, X_t) ==
    [self EXCEPT !.input_feature_names =
        Update(@, [k \in {component.name} |-> Columns(self.component_list, X_t)])]

\* A pass of the loop of _fit that fits every component.
FitStep_fits_all(self, X_t, i) ==
    [self |-> [RecordFeatureNames(self, self.component_list[i], X_t)
                 EXCEPT !.fitted[i] = FittedOn(X_t)],
     X |-> Transformed(X_t, i, FittedOn(X_t)),
     call |-> Call("fit_transform", i, X_t, FittedOn(X_t), NoPred, FALSE)]

\* One pass of the loop of _fit, for the component at position i: the
\* pipeline's fields, the component's output and its call.
FitStep(self, X_t, i) ==
    LET component == self.component_list[i]
        recorded == RecordFeatureNames(self, component, X_t)
    IN  IF component.needs_fitting
        THEN [self |-> [recorded EXCEPT !.fitted[i] = FittedOn(X_t)],
              X |-> Transformed(X_t, i, FittedOn(X_t)),
              call |-> Call("fit_transform", i, X_t, FittedOn(X_t), NoPred, FALSE)]
        ELSE [self |-> recorded,
              X |-> Transformed(X_t, i, self.fitted[i]),
              call |-> Call("transform", i, X_t, FittedOn(X_t), NoPred, FALSE)]

\* The end of _fit: the estimator's feature names, then estimator.fit(X_t, y_t).
FitEstimator(self, X_t, log) ==
    LET n == Len(self.component_list)
        recorded == RecordFeatureNames(self, self.component_list[n], X_t)
    IN  [self |-> [recorded EXCEPT !.fitted[n] = FittedOn(X_t)],
         calls |-> Append(log, Call("fit", n, X_t, FittedOn(X_t), NoPred, FALSE))]

\* PipelineBase._fit: the loop over component_list[:-1] from position i on,
\* then the estimator.  Gives back the pipeline's fields and the calls made.
RECURSIVE _fit_loop(_, _, _, _)
_fit_loop(self, X_t, i, log) ==
    IF i > Len(self.component_list) - 1 THEN FitEstimator(self, X_t, log)
    ELSE With(FitStep(self, X_t, i), LAMBDA step :
         With(Append(log, step.call), LAMBDA log_next :
            _fit_loop(step.self, step.X, i + 1, log_next)))

_fit(self, X) == _fit_loop(self, X, 1, <<>>)

\* proba = self.estimator.predict_proba(X) and the choice of what to return,
\* for the outcome t of _transform.
EstimatorPredictProbaCall(self, t) ==
    LET n == Len(self.component_list)
        call == Call("predict_proba", n, t.X, Unfitted, NoPred, FALSE)
        proba == EstimatorPredictProba(t.X, self.fitted[n])
    IN  IF t.raised # "" THEN t
        ELSE IF self.fitted[n] = Unfitted
        THEN Outcome(NoData, NoPred, Append(t.calls, call), "NotFittedError")
        ELSE IF ProbaColumns(self.fitted[n]) <= 2
        THEN Outcome(NoData, Column1(proba), Append(t.calls, call), "")
        ELSE Outcome(NoData, proba, Append(t.calls, call), "")

\* PipelineBase.predict_proba
predict_proba(self, X) ==
    With(_transform(self, X), LAMBDA t : EstimatorPredictProbaCall(self, t))

\* self.estimator.predict(X_t), after the calls in log.
EstimatorPredictCall(self, X_t, log) ==
    LET n == Len(self.component_list)
        call == Call("predict", n, X_t, Unfitted, NoPred, FALSE)
    IN  IF self.fitted[n] = Unfitted
        THEN Outcome(NoData, NoPred, Append(log, call), "NotFittedError")
        ELSE Outcome(NoData, EstimatorPredict(X_t, self.fitted[n]), Append(log, call), "")

\* The end of predict for an objective that needs fitting: objective.predict
\* on y_predicted, with X when the objective uses extra columns.
ObjectivePredictCall(self, X, y) ==
    LET extra == self.objective.uses_extra_columns
        call == Call("objective.predict", 0, IF extra THEN X ELSE NoData, Unfitted,
                     y.pred, extra)
    IN  IF y.raised # "" THEN y
        ELSE Outcome(NoData, ObjectivePredict(y.pred, self.objective_fitted, extra),
                     Append(y.calls, call), "")

\* The calls of first, then the outcome second.
After(first, second) == [second EXCEPT !.calls = first.calls \o @]

\* The branch of predict for an objective that needs fitting, t being the
\* outcome of the first _transform.
PredictWithObjective(self, X, t) ==
    IF self.objective.fit_needs_proba
    THEN With(predict_proba(self, X), LAMBDA p :
            ObjectivePredictCall(self, X, After(t, p)))
    ELSE With(_transform(self, X), LAMBDA t2 :
            IF t2.raised # "" THEN After(t, t2)
            ELSE With(EstimatorPredictCall(self, t2.X, t.calls \o t2.calls), LAMBDA y :
                    ObjectivePredictCall(self, X, y)))

\* PipelineBase.predict
predict(self, X) ==
    With(_transform(self, X), LAMBDA t :
        IF t.raised # "" THEN t
        ELSE IF self.objective.needs_fitting THEN PredictWithObjective(self, X, t)
        ELSE EstimatorPredictCall(self, t.X, t.calls))

\* The objective's part of fit: predictions for the held-out part, then
\* objective.fit on them; f is the outcome of _fit, log the calls before it.
FitObjective(f, ds, log) ==
    LET obj == f.self.objective
        X_objective == Data(ds, "held")
        y_objective == FitTag(ds, "held")
    IN  With(IF obj.fit_needs_proba THEN predict_proba(f.self, X_objective)
             ELSE predict(f.self, X_objective),
             LAMBDA y_predicted :
                IF y_predicted.raised # ""
                THEN [self |-> f.self, calls |-> log \o f.calls \o y_predicted.calls,
                      raised |-> y_predicted.raised]
                ELSE [self |-> [f.self EXCEPT !.objective_fitted = y_objective],
                      calls |-> log \o f.calls \o y_predicted.calls
                                \o <<Call("objective.fit", 0,
                                          IF obj.uses_extra_columns THEN X_objective
                                          ELSE NoData,
                                          y_objective, y_predicted.pred,
                                          obj.uses_extra_columns)>>,
                      raised |-> ""])

\* A fit that fits the components on all the data whatever the objective.
fit_on_all(self, ds) ==
    With(_fit(self, Data(ds, "all")), LAMBDA f :
        IF self.objective.needs_fitting
        THEN FitObjective(f, ds, <<Call("train_test_split", 0, Data(ds, "all"),
                                        FitTag(ds, "all"), NoPred, FALSE)>>)
        ELSE [self |-> f.self, calls |-> f.calls, raised |-> ""])

\* PipelineBase.fit on data set ds.  train_test_split keeps part "train" for
\* the components and part "held" for the objective.
fit(self, ds) ==
    LET split == Call("train_test_split", 0, Data(ds, "all"), FitTag(ds, "all"),
                      NoPred, FALSE)
    IN  IF self.objective.needs_fitting
        THEN With(_fit(self, Data(ds, "train")), LAMBDA f : FitObjective(f, ds, <<split>>))
        ELSE With(_fit(self, Data(ds, "all")), LAMBDA f :
                [self |-> f.self, calls |-> f.calls, raised |-> ""])

\* One pass of the loop of score, for objective obj: the prediction it is
\* scored on, computed unless the cache for its kind holds one.
ScorePrediction(self, X, obj, y_predicted, y_predicted_proba) ==
    IF obj.score_needs_proba
    THEN IF y_predicted_proba = NoPred THEN predict_proba(self, X)
         ELSE Outcome(NoData, y_predicted_proba, <<>>, "")
    ELSE IF y_predicted = NoPred THEN predict(self, X)
         ELSE Outcome(NoData, y_predicted, <<>>, "")

\* The loop of PipelineBase.score over [self.objective] + other_objectives,
\* from position i on; c holds the two caches (NoPred for None), the scores
\* so far and the calls so far.
RECURSIVE score_loop(_, _, _, _, _)
score_loop(self, X, objectives, i, c) ==
    IF i > Len(objectives) THEN [scores |-> c.scores, calls |-> c.calls, raised |-> ""]
    ELSE LET obj == objectives[i]
             y == FitTag(X.ds, X.part)
             extra == obj.uses_extra_columns
         IN  With(ScorePrediction(self, X, obj, c.y_predicted, c.y_predicted_proba),
                  LAMBDA p :
                    IF p.raised # ""
                    THEN [scores |-> c.scores, calls |-> c.calls \o p.calls,
                          raised |-> p.raised]
                    ELSE With(
                        [y_predicted |-> IF obj.score_needs_proba THEN c.y_predicted
                                         ELSE p.pred,
                         y_predicted_proba |-> IF obj.score_needs_proba THEN p.pred
                                               ELSE c.y_predicted_proba,
                         scores |-> Append(c.scores, ObjectiveScore(obj, p.pred, y, extra)),
                         calls |-> (c.calls \o p.calls)
                                   \o <<Call("objective.score", 0,
                                             IF extra THEN X ELSE NoData, y, p.pred,
                                             extra)>>],
                        LAMBDA c_next : score_loop(self, X, objectives, i + 1, c_next)))

\* OrderedDict(pairs): a key met again keeps its place and takes the new value.
RECURSIVE OrderedDict(_, _, _)
OrderedDict(pairs, i, acc) ==
    IF i > Len(pairs) THEN acc
    ELSE LET at == {j \in 1..Len(acc) : acc[j][1] = pairs[i][1]}
         IN  With(IF at = {} THEN Append(acc, pairs[i])
                  ELSE [j \in 1..Len(acc) |-> IF j \in at THEN pairs[i] ELSE acc[j]],
                  LAMBDA acc_next : OrderedDict(pairs, i + 1, acc_next))

\* A zip of the names with scores instead of scores[1:].
ZipNames_shifted(other_objectives, scores) ==
    [j \in 1..Len(other_objectives) |-> <<other_objectives[j].name, scores[j]>>]

\* zip([n.name for n in other_objectives], scores[1:])
ZipNames(other_objectives, scores) ==
    [j \in 1..Len(other_objectives) |-> <<other_objectives[j].name, scores[j + 1]>>]

\* The return statements of score, r being the outcome of its loop.
ScoreResult(other_objectives, r) ==
    IF r.raised # ""
    THEN [score |-> NoScore, other_scores |-> <<>>, calls |-> r.calls, raised |-> r.raised]
    ELSE IF other_objectives = <<>>
    THEN [score |-> r.scores[1], other_scores |-> <<>>, calls |-> r.calls, raised |-> ""]
    ELSE [score |-> r.scores[1],
          other_scores |-> With(ZipNames(other_objectives, r.scores), LAMBDA pairs :
                                OrderedDict(pairs, 1, <<>>)),
          calls |-> r.calls, raised |-> ""]

\* PipelineBase.score on data set ds
score(self, ds, other_objectives) ==
    With(score_loop(self, Data(ds, "all"), <<self.objective>> \o other_objectives, 1,
                    [y_predicted |-> NoPred, y_predicted_proba |-> NoPred,
                     scores |-> <<>>, calls |-> <<>>]),
         LAMBDA r : ScoreResult(other_objectives, r))

\* PipelineBase.get_component: the first component with the name, or None.
get_component(list, n) ==
    LET at == {i \in 1..Len(list) : list[i].name = n}
    IN  IF at = {} THEN NoComponent
        ELSE list[CHOOSE i \in at : \A j \in at : i <= j]

-----------------------------------------------------------------------------
(* The standard objectives and the library metrics they call *)

\* The label vectors given to an objective's score.
LabelVectors == {<<"0", "1">>, <<"1", "0">>, <<"1", "1">>}

\* A call metrics.<metric>(first, second) of the wrapped library.
MetricsCall(metric, first, second) ==
    [metric |-> metric, first |-> first, second |-> second]

\* F1.score(y_predicted, y_true)
F1_score(y_predicted, y_true) == MetricsCall("f1_score", y_true, y_predicted)

\* Precision.score(y_predicted, y_true)
Precision_score(y_predicted, y_true) == MetricsCall("precision_score", y_true, y_predicted)

\* Recall.score(y_predicted, y_true)
Recall_score(y_predicted, y_true) == MetricsCall("f1_score", y_true, y_predicted)

\* AUC.score(y_predicted, y_true)
AUC_score(y_predicted, y_true) == MetricsCall("roc_auc_score", y_true, y_predicted)

\* LogLoss.score(y_predicted, y_true)
LogLoss_score(y_predicted, y_true) == MetricsCall("log_loss", y_true, y_predicted)

\* MCC.score(y_predicted, y_true)
MCC_score(y_predicted, y_true) == MetricsCall("matthews_corrcoef", y_true, y_predicted)

\* R2.score(y_predicted, y_true)
R2_score(y_predicted, y_true) == MetricsCall("r2_score", y_true, y_predicted)

\* The name attribute of each standard objective class.
StandardObjectiveNames == {"F1", "Precision", "Recall", "AUC", "Log Loss", "MCC", "R2"}

\* What is kept of a score call: the objective's name, the arguments given,
\* the library call made, and the metric every objective scored so far has
\* dispatched to.
NoMetricCall ==
    [objective |-> "", y_predicted |-> <<>>, y_true |-> <<>>,
     call |-> MetricsCall("", <<>>, <<>>), dispatched |-> EmptyDict]

Scored(n, y_predicted, y_true, call) ==
    [objective |-> n, y_predicted |-> y_predicted, y_true |-> y_true, call |-> call,
     dispatched |-> Update(metric_call.dispatched, [k \in {n} |-> call.metric])]

-----------------------------------------------------------------------------
(* The state machine: one pipeline object and the operations on it *)

NJobs == {"1"}

RandomStates == {"0"}

\* The keys of pipeline[key]: a slice, an int (0-based), a name.
ItemKeys ==
    {[kind |-> "slice", index |-> 0, name |-> ""]}
    \cup {[kind |-> "int", index |-> i, name |-> ""] : i \in 0..(MaxComponents - 1)}
    \cup {[kind |-> "str", index |-> 0, name |-> c.name] : c \in Components}

Init ==
    /\ pc = "new"
    /\ raised = ""
    /\ objective = NoObjective
    /\ component_list = <<>>
    /\ component_names = <<>>
    /\ name = <<>>
    /\ parameters = EmptyDict
    /\ n_jobs = ""
    /\ random_state = ""
    /\ kwargs = EmptyDict
    /\ instantiated = <<>>
    /\ input_feature_names = EmptyDict
    /\ fitted = <<>>
    /\ objective_fitted = Unfitted
    /\ calls = <<>>
    /\ ret = NoRet
    /\ metric_call = NoMetricCall

\* PipelineBase.__init__(objective, component_list, n_jobs, random_state, **kwargs)
\* with a list whose last component is no Estimator: the first assignments,
\* then ValueError; the caller gets no object.
ConstructFails(obj, list, nj, rs, kw) ==
    /\ pc = "new"
    /\ ~LastIsEstimator(list)
    /\ pc' = "failed"
    /\ raised' = "ValueError"
    /\ objective' = obj
    /\ random_state' = rs
    /\ component_list' = list
    /\ component_names' = [i \in 1..Len(list) |-> list[i].name]
    /\ input_feature_names' = EmptyDict
    /\ UNCHANGED <<metric_call, name, parameters, n_jobs, kwargs, instantiated, fitted,
                   objective_fitted, calls, ret>>

\* PipelineBase.__init__ otherwise.
Construct(obj, list, nj, rs, kw) ==
    /\ pc = "new"
    /\ LastIsEstimator(list)
    /\ \E made \in {_instantiate_components(list, kw, nj, rs)} :
        /\ pc' = "ready"
        /\ raised' = ""
        /\ objective' = obj
        /\ random_state' = rs
        /\ component_list' = made.component_list
        /\ component_names' = [i \in 1..Len(list) |-> list[i].name]
        /\ input_feature_names' = EmptyDict
        /\ name' = _generate_name(list)
        /\ n_jobs' = nj
        /\ kwargs' = made.kwargs
        /\ instantiated' = made.built
        /\ parameters' = CollectParameters(made.component_list, 1, EmptyDict)
        /\ fitted' = [i \in 1..Len(list) |-> Unfitted]
        /\ UNCHANGED <<metric_call, objective_fitted, calls, ret>>

\* pipeline.fit(X, y)
Fit(ds) ==
    /\ pc = "ready"
    /\ \E self \in {Self} : \E r \in {fit(self, ds)} :
        /\ fitted' = r.self.fitted
        /\ objective_fitted' = r.self.objective_fitted
        /\ input_feature_names' = r.self.input_feature_names
        /\ calls' = r.calls
        /\ raised' = r.raised
        /\ ret' = [NoRet EXCEPT !.op = "fit", !.arg = <<ds>>]
        /\ UNCHANGED <<metric_call, pc, objective, component_list, component_names, name, parameters,
                       n_jobs, random_state, kwargs, instantiated>>

\* pipeline.predict(X)
Predict(ds) ==
    /\ pc = "ready"
    /\ \E self \in {Self} : \E r \in {predict(self, Data(ds, "all"))} :
        /\ calls' = r.calls
        /\ raised' = r.raised
        /\ ret' = [NoRet EXCEPT !.op = "predict", !.pred = r.pred, !.arg = <<ds>>]
        /\ UNCHANGED <<metric_call, pc, objective, component_list, component_names, name, parameters,
                       n_jobs, random_state, kwargs, instantiated, input_feature_names,
                       fitted, objective_fitted>>

\* pipeline.predict_proba(X)
PredictProba(ds) ==
    /\ pc = "ready"
    /\ \E self \in {Self} : \E r \in {predict_proba(self, Data(ds, "all"))} :
        /\ calls' = r.calls
        /\ raised' = r.raised
        /\ ret' = [NoRet EXCEPT !.op = "predict_proba", !.pred = r.pred, !.arg = <<ds>>]
        /\ UNCHANGED <<metric_call, pc, objective, component_list, component_names, name, parameters,
                       n_jobs, random_state, kwargs, instantiated, input_feature_names,
                       fitted, objective_fitted>>

\* pipeline.score(X, y, other_objectives)
Score(ds, other_objectives) ==
    /\ pc = "ready"
    /\ \E self \in {Self} : \E r \in {score(self, ds, other_objectives)} :
        /\ calls' = r.calls
        /\ raised' = r.raised
        /\ ret' = [NoRet EXCEPT !.op = "score", !.score = r.score,
                                !.other_scores = r.other_scores,
                                !.arg = <<ds>> \o [j \in 1..Len(other_objectives) |->
                                                     other_objectives[j].name]]
        /\ UNCHANGED <<metric_call, pc, objective, component_list, component_names, name, parameters,
                       n_jobs, random_state, kwargs, instantiated, input_feature_names,
                       fitted, objective_fitted>>

\* pipeline.describe(return_dict): the lines go to the logger; each component
\* is asked to describe(print_name=False), which ComponentBase.describe does
\* not accept (TypeError) and a subclass's describe may (accepts).
Describe(return_dict, accepts) ==
    /\ pc = "ready"
    /\ calls' = IF accepts
                THEN [i \in 1..Len(component_list) |->
                        Call("describe", i, NoData, Unfitted, NoPred, FALSE)]
                ELSE <<Call("describe", 1, NoData, Unfitted, NoPred, FALSE)>>
    /\ raised' = IF accepts THEN "" ELSE "TypeError"
    /\ ret' = [NoRet EXCEPT !.op = "describe",
                            !.dict = IF accepts /\ return_dict THEN parameters ELSE EmptyDict]
    /\ UNCHANGED <<metric_call, pc, objective, component_list, component_names, name, parameters,
                   n_jobs, random_state, kwargs, instantiated, input_feature_names,
                   fitted, objective_fitted>>

\* pipeline[key]
GetItem(key) ==
    /\ pc = "ready"
    /\ calls' = <<>>
    /\ raised' = IF key.kind = "slice" THEN "NotImplementedError"
                 ELSE IF key.kind = "int" /\ key.index >= Len(component_list)
                 THEN "IndexError" ELSE ""
    /\ ret' = [NoRet EXCEPT !.op = "getitem",
                            !.item = IF key.kind = "int" /\ key.index < Len(component_list)
                                     THEN component_list[key.index + 1]
                                     ELSE IF key.kind = "str"
                                     THEN get_component(component_list, key.name)
                                     ELSE NoComponent]
    /\ UNCHANGED <<metric_call, pc, objective, component_list, component_names, name, parameters,
                   n_jobs, random_state, kwargs, instantiated, input_feature_names,
                   fitted, objective_fitted>>

\* An item assignment that stores the value.
SetItem_assigns(index, value) ==
    /\ pc = "ready"
    /\ index < Len(component_list)
    /\ component_list' = [component_list EXCEPT ![index + 1] = value]
    /\ calls' = <<>>
    /\ raised' = ""
    /\ ret' = [NoRet EXCEPT !.op = "setitem"]
    /\ UNCHANGED <<metric_call, pc, objective, component_names, name, parameters,
                   n_jobs, random_state, kwargs, instantiated, input_feature_names,
                   fitted, objective_fitted>>

\* pipeline[index] = value
SetItem(index, value) ==
    /\ pc = "ready"
    /\ calls' = <<>>
    /\ raised' = "NotImplementedError"
    /\ ret' = [NoRet EXCEPT !.op = "setitem"]
    /\ UNCHANGED <<metric_call, pc, objective, component_list, component_names, name, parameters,
                   n_jobs, random_state, kwargs, instantiated, input_feature_names,
                   fitted, objective_fitted>>

\* PipelineBase.generate_name(component_list), a classmethod
GenerateName(list) ==
    /\ pc = "ready"
    /\ calls' = <<>>
    /\ raised' = ""
    /\ ret' = [NoRet EXCEPT !.op = "generate_name", !.name = generate_name(list),
                            !.arg = [i \in 1..Len(list) |-> list[i].name]]
    /\ UNCHANGED <<metric_call, pc, objective, component_list, component_names, name, parameters,
                   n_jobs, random_state, kwargs, instantiated, input_feature_names,
                   fitted, objective_fitted>>

Constructor ==
    \E obj \in Objectives, list \in ComponentLists, nj \in NJobs, rs \in RandomStates,
       kw \in KwargsChoices :
        \/ ConstructFails(obj, list, nj, rs, kw)
        \/ Construct(obj, list, nj, rs, kw)

Next ==
    \/ Constructor
    \/ \E ds \in Datasets : Fit(ds)
    \/ \E ds \in Datasets : Predict(ds)
    \/ \E ds \in Datasets : PredictProba(ds)
    \/ \E ds \in Datasets, other_objectives \in OtherObjectiveLists :
            Score(ds, other_objectives)
    \/ \E return_dict \in BOOLEAN, accepts \in BOOLEAN : Describe(return_dict, accepts)
    \/ \E key \in ItemKeys : GetItem(key)
    \/ \E index \in 0..(MaxComponents - 1), value \in Components : SetItem(index, value)

Spec == Init /\ [][Next]_vars

\* Construction and the classmethod generate_name alone.
NextNames ==
    \/ Constructor
    \/ \E list \in ComponentLists : GenerateName(list)

SpecNames == Init /\ [][NextNames]_vars

PipelineUnchanged ==
    UNCHANGED <<pc, raised, objective, component_list, component_names, name, parameters,
                n_jobs, random_state, kwargs, instantiated, input_feature_names, fitted,
                objective_fitted, calls, ret>>

\* F1().score(y_predicted, y_true)
ScoreF1(y_predicted, y_true) ==
    /\ metric_call' = Scored("F1", y_predicted, y_true, F1_score(y_predicted, y_true))
    /\ PipelineUnchanged

\* Precision().score(y_predicted, y_true)
ScorePrecision(y_predicted, y_true) ==
    /\ metric_call' = Scored("Precision", y_predicted, y_true,
                             Precision_score(y_predicted, y_true))
    /\ PipelineUnchanged

\* Recall().score(y_predicted, y_true)
ScoreRecall(y_predicted, y_true) ==
    /\ metric_call' = Scored("Recall", y_predicted, y_true, Recall_score(y_predicted, y_true))
    /\ PipelineUnchanged

\* AUC().score(y_predicted, y_true)
ScoreAUC(y_predicted, y_true) ==
    /\ metric_call' = Scored("AUC", y_predicted, y_true, AUC_score(y_predicted, y_true))
    /\ PipelineUnchanged

\* LogLoss().score(y_predicted, y_true)
ScoreLogLoss(y_predicted, y_true) ==
    /\ metric_call' = Scored("Log Loss", y_predicted, y_true,
                             LogLoss_score(y_predicted, y_true))
    /\ PipelineUnchanged

\* MCC().score(y_predicted, y_true)
ScoreMCC(y_predicted, y_true) ==
    /\ metric_call' = Scored("MCC", y_predicted, y_true, MCC_score(y_predicted, y_true))
    /\ PipelineUnchanged

\* R2().score(y_predicted, y_true)
ScoreR2(y_predicted, y_true) ==
    /\ metric_call' = Scored("R2", y_predicted, y_true, R2_score(y_predicted, y_true))
    /\ PipelineUnchanged

\* The standard objectives alone, scored in any order on any label vectors.
NextObjectives ==
    \E y_predicted \in LabelVectors, y_true \in LabelVectors :
        \/ ScoreF1(y_predicted, y_true)
        \/ ScorePrecision(y_predicted, y_true)
        \/ ScoreRecall(y_predicted, y_true)
        \/ ScoreAUC(y_predicted, y_true)
        \/ ScoreLogLoss(y_predicted, y_true)
        \/ ScoreMCC(y_predicted, y_true)
        \/ ScoreR2(y_predicted, y_true)

SpecObjectives == Init /\ [][NextObjectives]_vars

-----------------------------------------------------------------------------
(* Claims *)

Last(list) == list[Len(list)]

\* C1: constructing a pipeline with a component list whose last component is
\* not an Estimator fails with ValueError, whatever the other components, the
\* objective and the keyword arguments are, and produces no pipeline object:
\* construction fails exactly for those lists, and after a failure nothing of
\* a constructed pipeline exists and no operation has run.
C1_LastNotEstimatorFails ==
    pc # "new" =>
        /\ (pc = "failed") <=> ~IsEstimator(Last(component_list))
        /\ pc = "failed" =>
              /\ raised = "ValueError"
              /\ name = <<>> /\ parameters = EmptyDict /\ fitted = <<>>
              /\ calls = <<>> /\ ret = NoRet

\* A construction that failed on a list of transformers only, given keyword
\* arguments and an objective that needs fitting.
C1_Witness ==
    /\ pc = "failed"
    /\ raised = "ValueError"
    /\ Len(component_list) >= 2
    /\ \A i \in 1..Len(component_list) : ~IsEstimator(component_list[i])
    /\ objective.needs_fitting

\* The naming rule: the estimator's name, then " w/ " and the first
\* non-final name, then " + " and each further non-final name in list order.
NameRule(names) ==
    [j \in 1..(2 * Len(names) - 1) |->
        IF j = 1 THEN names[Len(names)]
        ELSE IF j = 2 THEN " w/ "
        ELSE IF j % 2 = 0 THEN " + "
        ELSE names[(j - 1) \div 2]]

\* C2: the name set at construction follows the naming rule for the
\* pipeline's component ordering, the classmethod generate_name follows it
\* for any list, and on the pipeline's own list it gives the instance's name.
C2_NameFollowsRule ==
    pc = "ready" =>
        /\ name = NameRule(component_names)
        /\ ret.op = "generate_name" =>
              /\ ret.name = NameRule(ret.arg)
              /\ ret.arg = component_names => ret.name = name

\* generate_name applied to the list of a pipeline of three components.
C2_Witness ==
    /\ pc = "ready"
    /\ ret.op = "generate_name"
    /\ ret.arg = component_names
    /\ Len(component_names) = 3
    /\ component_names[1] # component_names[2]

\* X passed through the non-final components' transforms in list order, each
\* component in its current fit state.
ThroughTransforms(X) ==
    [X EXCEPT !.chain =
        [i \in 1..(Len(component_list) - 1) |-> [comp |-> i, state |-> fitted[i]]]]

\* The wrapped estimator's predict called directly on the transformed X.
DirectPredict(ds) ==
    EstimatorPredict(ThroughTransforms(Data(ds, "all")), fitted[Len(component_list)])

\* The wrapped estimator's predict_proba called directly on the transformed
\* X, as predict_proba hands it on: column 1 alone for at most two columns.
DirectProba(ds) ==
    LET st == fitted[Len(component_list)]
        proba == EstimatorPredictProba(ThroughTransforms(Data(ds, "all")), st)
    IN  IF st.ds = "binary" THEN [proba EXCEPT !.kind = "proba[:, 1]"] ELSE proba

\* predict(X) has returned on a pipeline fitted on the same data.
PredictAfterFit ==
    /\ pc = "ready"
    /\ ret.op = "predict"
    /\ raised = ""
    /\ fitted[Len(component_list)].ds = ret.arg[1]

\* C3 as stated: after fit(X, y), predict(X) returns what the estimator's
\* predict returns on the transformed X, for every objective.
C3_PredictIsEstimatorPredict ==
    PredictAfterFit => ret.pred = DirectPredict(ret.arg[1])

\* What predict(X) is to return: the estimator's predict on the transformed X
\* for an objective that needs no fitting; for one that does, the objective's
\* predict applied to the estimator's output on the transformed X
\* (predict_proba's output if the objective's fit needs probabilities, the
\* labels otherwise), with X passed along iff the objective uses extra columns.
ExpectedPredict(ds) ==
    IF ~objective.needs_fitting THEN DirectPredict(ds)
    ELSE [(IF objective.fit_needs_proba THEN DirectProba(ds) ELSE DirectPredict(ds))
            EXCEPT !.post = TRUE,
                   !.postState = objective_fitted,
                   !.postExtra = objective.uses_extra_columns]

\* C3: after fit(X, y), predict(X) returns what the estimator's predict
\* returns on X passed through the non-final transforms in list order when
\* the objective does not need fitting; when it does, predict returns the
\* objective's predict applied to the estimator's output on the transformed X.
C3_PredictByObjective ==
    PredictAfterFit =>
        /\ ret.pred = ExpectedPredict(ret.arg[1])
        /\ ~objective.needs_fitting => ret.pred = DirectPredict(ret.arg[1])

\* predict after fit on a pipeline with two transformers, one of them fitted,
\* and an objective that needs no fitting.
C3_Witness ==
    /\ PredictAfterFit
    /\ ~objective.needs_fitting
    /\ Len(component_list) = 3
    /\ component_list[1].needs_fitting
    /\ ret.pred.kind = "labels"

\* score(X, y, other_objectives) has returned.
ScoreReturned == pc = "ready" /\ ret.op = "score" /\ raised = ""

\* The names of the additional objectives requested, in the order requested.
Requested == Tail(ret.arg)

ObjectiveNamed(n) == CHOOSE o \in Objectives : o.name = n

\* The score of objective obj on data set ds: on the probabilities if its
\* score needs them, on the pipeline's predictions otherwise.
ExpectedScore(obj, ds) ==
    [objective |-> obj.name,
     pred |-> IF obj.score_needs_proba THEN DirectProba(ds) ELSE ExpectedPredict(ds),
     y |-> FitTag(ds, "all"),
     extra |-> obj.uses_extra_columns]

\* C4 as stated: score returns the primary score and a mapping with one entry
\* per requested additional objective, keyed by its name, in the order
\* requested, each value that objective's score.
C4_OneEntryPerRequest ==
    ScoreReturned =>
        /\ ret.score = ExpectedScore(objective, ret.arg[1])
        /\ Len(ret.other_scores) = Len(Requested)
        /\ \A j \in 1..Len(Requested) :
              ret.other_scores[j] =
                <<Requested[j], ExpectedScore(ObjectiveNamed(Requested[j]), ret.arg[1])>>

FirstRequest(n) ==
    CHOOSE j \in 1..Len(Requested) :
        Requested[j] = n /\ \A k \in 1..(j - 1) : Requested[k] # n

\* C4: score returns exactly one primary score, computed with the pipeline's
\* own objective, and a mapping with one entry per distinct name among the
\* requested additional objectives, in the order the names were first
\* requested, each value the score of the objective of that name; with no
\* additional objectives the mapping is empty.
C4_OneEntryPerName ==
    ScoreReturned =>
        LET n == Len(ret.other_scores)
        IN  /\ ret.score = ExpectedScore(objective, ret.arg[1])
            /\ {ret.other_scores[j][1] : j \in 1..n} = {Requested[j] : j \in 1..Len(Requested)}
            /\ \A j, k \in 1..n :
                  j < k => FirstRequest(ret.other_scores[j][1])
                             < FirstRequest(ret.other_scores[k][1])
            /\ \A j \in 1..n :
                  ret.other_scores[j][2] =
                    ExpectedScore(ObjectiveNamed(ret.other_scores[j][1]), ret.arg[1])
            /\ Requested = <<>> => ret.other_scores = <<>>

\* score with two different additional objectives on a fitted pipeline.
C4_Witness ==
    /\ ScoreReturned
    /\ Len(Requested) = 2
    /\ Requested[1] # Requested[2]
    /\ Len(ret.other_scores) = 2
    /\ Len(component_list) >= 2

Count(op) == Cardinality({k \in 1..Len(calls) : calls[k].op = op})

\* C5: within one score call the estimator's label predictions are computed
\* at most once and its probability estimates at most once.
C5_ComputedOnce ==
    pc = "ready" /\ ret.op = "score" =>
        /\ Count("predict") <= 1
        /\ Count("predict_proba") <= 1

ComponentNamesOf(list) == [i \in 1..Len(list) |-> list[i].name]

\* C6: after any sequence of operations on a constructed pipeline the
\* component list is the sequence it was at construction and its last element
\* is an Estimator; an item assignment raises NotImplementedError and changes
\* nothing of the pipeline.
C6_ComponentListFixed ==
    /\ [](pc = "ready" =>
            /\ IsEstimator(Last(component_list))
            /\ component_names = ComponentNamesOf(component_list))
    /\ [][pc = "ready" => pc' = "ready" /\ component_list' = component_list]_vars
    /\ [][ret'.op = "setitem" =>
            /\ raised' = "NotImplementedError"
            /\ UNCHANGED <<pc, objective, component_list, component_names, name, parameters,
                           n_jobs, random_state, input_feature_names, fitted,
                           objective_fitted>>]_vars

\* An item assignment attempted on a fitted pipeline of several components.
C6_Witness ==
    /\ pc = "ready"
    /\ ret.op = "setitem"
    /\ Len(component_list) >= 2
    /\ fitted[Len(component_list)] # Unfitted

\* fit(X, y) has returned.
FitReturned == pc = "ready" /\ ret.op = "fit" /\ raised = ""

CallsOf(ops) == {k \in 1..Len(calls) : calls[k].op \in ops}

\* C7: fit splits off a held-out part exactly when the objective needs
\* fitting.  Then the components and the estimator are fitted on the training
\* part only and, after them, the objective is fitted once, on predictions for
\* the held-out part: probabilities iff its fit needs probabilities, with the
\* held-out features iff it uses extra columns.  Otherwise the components and
\* the estimator are fitted on all of the data and the objective is not fitted.
C7_HeldOutSplit ==
    FitReturned =>
        LET ds == ret.arg[1]
            n == Len(component_list)
            part == IF objective.needs_fitting THEN "train" ELSE "all"
            last == calls[Len(calls)]
        IN  /\ (CallsOf({"train_test_split"}) # {}) <=> objective.needs_fitting
            /\ \A k \in CallsOf({"fit", "fit_transform"}) :
                  /\ calls[k].X.ds = ds /\ calls[k].X.part = part
                  /\ calls[k].y = FitTag(ds, part)
            /\ fitted[n] = FitTag(ds, part)
            /\ \A i \in 1..n : fitted[i] \in {Unfitted, FitTag(ds, part)}
            /\ ~objective.needs_fitting =>
                  /\ CallsOf({"objective.fit"}) = {}
                  /\ objective_fitted = Unfitted
            /\ objective.needs_fitting =>
                  /\ CallsOf({"objective.fit"}) = {Len(calls)}
                  /\ last.pred.X.ds = ds /\ last.pred.X.part = "held"
                  /\ last.y = FitTag(ds, "held")
                  /\ (last.pred.kind \in {"proba", "proba[:, 1]"})
                        <=> objective.fit_needs_proba
                  /\ last.extra <=> objective.uses_extra_columns
                  /\ last.X = IF objective.uses_extra_columns THEN Data(ds, "held")
                              ELSE NoData
                  /\ objective_fitted = FitTag(ds, "held")

\* fit with an objective that needs fitting, on a pipeline with a fitted
\* transformer: the objective was fitted on the held-out part.
C7_Witness ==
    /\ FitReturned
    /\ objective.needs_fitting
    /\ objective.uses_extra_columns
    /\ Len(component_list) >= 2
    /\ fitted[1] = FitTag(ret.arg[1], "train")
    /\ calls[Len(calls)].op = "objective.fit"

\* C8: after construction every component of the component list carries the
\* keyword arguments of the pipeline's constructor that are parameters of its
\* own constructor, and the pipeline's parameter mapping is the union of the
\* components' parameters.
C8_ComponentsInstantiated ==
    pc = "ready" =>
        /\ \A i \in 1..Len(component_list) :
              \A k \in DOMAIN component_list[i].parameters :
                  k \in component_list[i].args /\ k \in DOMAIN kwargs
                      => component_list[i].parameters[k] = kwargs[k]
        /\ \A k \in DOMAIN parameters :
              \E i \in 1..Len(component_list) :
                  /\ k \in DOMAIN component_list[i].parameters
                  /\ parameters[k] = component_list[i].parameters[k]

\* The data component i of the list received in the last fit: the training
\* data through the components before it, in list order.
Received(i) ==
    [Data(ret.arg[1], IF objective.needs_fitting THEN "train" ELSE "all")
        EXCEPT !.chain = [j \in 1..(i - 1) |-> [comp |-> j, state |-> fitted[j]]]]

\* The calls of _fit within fit: after the split if there is one.
FitCall(i) == calls[i + (IF objective.needs_fitting THEN 1 ELSE 0)]

\* _fit takes the non-final components in list order, each on the output of
\* its predecessor: fit_transform for one that needs fitting, transform alone
\* for any other, which is never fitted; the estimator is fitted last, once.
FitInListOrder ==
    LET n == Len(component_list)
    IN  /\ \A i \in 1..(n - 1) :
              /\ FitCall(i).comp = i
              /\ FitCall(i).X = Received(i)
              /\ FitCall(i).op = IF component_list[i].needs_fitting THEN "fit_transform"
                                 ELSE "transform"
              /\ ~component_list[i].needs_fitting => fitted[i] = Unfitted
        /\ FitCall(n).op = "fit" /\ FitCall(n).comp = n /\ FitCall(n).X = Received(n)
        /\ Cardinality(CallsOf({"fit"})) = 1
        /\ Cardinality(CallsOf({"fit_transform"}))
              = Cardinality({i \in 1..(n - 1) : component_list[i].needs_fitting})

\* C9 as stated: _fit works in list order and afterwards the feature-name
\* record holds, for every component, the columns of the data it received.
C9_FeatureNamesOfEveryComponent ==
    FitReturned =>
        /\ FitInListOrder
        /\ \A i \in 1..Len(component_list) :
              input_feature_names[component_list[i].name]
                  = Columns(component_list, Received(i))

\* C9: _fit works in list order and afterwards the feature-name record holds,
\* for every component name, the columns of the data received by the last
\* component of that name in the list (so for every component whose name no
\* later component shares, the estimator included, the columns it received).
C9_FeatureNamesByName ==
    FitReturned =>
        /\ FitInListOrder
        /\ DOMAIN input_feature_names
              = {component_list[i].name : i \in 1..Len(component_list)}
        /\ \A i \in 1..Len(component_list) :
              (\A j \in (i + 1)..Len(component_list) :
                    component_list[j].name # component_list[i].name)
                  => input_feature_names[component_list[i].name]
                        = Columns(component_list, Received(i))

\* fit of a pipeline with a component that is only transformed followed by
\* one that is fitted and renames the columns.
C9_Witness ==
    /\ FitReturned
    /\ Len(component_list) = 3
    /\ ~component_list[1].needs_fitting
    /\ component_list[2].needs_fitting
    /\ input_feature_names[component_list[3].name] # input_feature_names[component_list[2].name]

\* C10: every call of objective.predict comes after a completed call of
\* objective.fit, in the same operation or in an earlier one.
C10_ObjectiveFittedBeforePredict ==
    [][\A k \in 1..Len(calls') :
          calls'[k].op = "objective.predict" =>
              \/ objective_fitted # Unfitted
              \/ \E j \in 1..(k - 1) : calls'[j].op = "objective.fit"]_vars

\* The library metric the name of a standard objective denotes.
MetricDenotedBy(n) ==
    CASE n = "F1" -> "f1_score"
      [] n = "Precision" -> "precision_score"
      [] n = "Recall" -> "recall_score"
      [] n = "AUC" -> "roc_auc_score"
      [] n = "Log Loss" -> "log_loss"
      [] n = "MCC" -> "matthews_corrcoef"
      [] n = "R2" -> "r2_score"

\* C11: each standard objective scores by calling the library metric its name
\* denotes, the true labels first and the predictions second, and no two
\* objectives of different names dispatch to the same metric.
C11_MetricDenotedByName ==
    metric_call.objective \in StandardObjectiveNames =>
        /\ metric_call.call.metric = MetricDenotedBy(metric_call.objective)
        /\ metric_call.call.first = metric_call.y_true
        /\ metric_call.call.second = metric_call.y_predicted
        /\ \A a, b \in DOMAIN metric_call.dispatched :
              a # b => metric_call.dispatched[a] # metric_call.dispatched[b]

====
